---- MODULE Spec2Model ----
(***************************************************************************)
(* Model of pipeline.py: the SEC EDGAR 10-K "Item 1C" batch extractor.     *)
(*                                                                         *)
(* Strings are sequences of tokens.  A token stands for a fixed piece of   *)
(* text (a word, a separator, a run of prose); every string operation of   *)
(* the source (split, strip, join, len, substring test, regex search) is   *)
(* computed on the token sequence.                                         *)
(***************************************************************************)
EXTENDS Integers, Sequences, FiniteSets, TLC

VARIABLES
    \* normalize_sec_url applied repeatedly
    url, url_out, url_prev, url_calls,
    \* extract_item_1c applied to a text
    text, start_idx, end_idx, item_1c, x_done,
    \* primary_10k_html_url_from_index applied to a fetched index page
    index_page, html_url, r_done,
    \* filing_index_url_from_master_filename applied to a filename
    filename, index_url, f_done,
    \* main / process_filing / download
    pc, sample, cur, stage, html, files, log, crashed

urlVars  == <<url, url_out, url_prev, url_calls>>
textVars == <<text, start_idx, end_idx, item_1c, x_done>>
pageVars == <<index_page, html_url, r_done>>
nameVars == <<filename, index_url, f_done>>
mainVars == <<pc, sample, cur, stage, html, files, log, crashed>>
vars     == <<urlVars, textVars, pageVars, nameVars, mainVars>>

\* Python's None, comparable with every token sequence.
None == <<"None">>

\* ------------------------------------------------------------------------
\* Generic sequence helpers (str.find / str.split / in)
\* ------------------------------------------------------------------------

\* s[i:] of Python for a 1-based first index i.
From(s, i) == SubSeq(s, i, Len(s))

\* s[:i] of Python: the tokens strictly before the 1-based index i.
Before(s, i) == SubSeq(s, 1, i - 1)

\* The positions at which token t occurs in s.
Positions(s, t) == {i \in 1..Len(s) : s[i] = t}

\* The least element of a non-empty set of integers.
Min(S) == CHOOSE m \in S : \A n \in S : m <= n

\* s.split(t): the pieces of s between the occurrences of t.
RECURSIVE Split(_, _)
Split(s, t) ==
    IF Positions(s, t) = {} THEN <<s>>
    ELSE LET i == Min(Positions(s, t))
         IN  <<Before(s, i)>> \o Split(From(s, i + 1), t)

\* The concatenation of a sequence of sequences.
RECURSIVE Flatten(_)
Flatten(ss) == IF ss = <<>> THEN <<>> ELSE Head(ss) \o Flatten(Tail(ss))

\* ------------------------------------------------------------------------
\* normalize_sec_url
\* ------------------------------------------------------------------------

\* "https://www.sec.gov", the prefix the code puts before the doc value.
SecHost == "https://www.sec.gov"

\* urllib's unquote on one token: the percent-encoded "?" decodes to "?".
Unquote(t) == IF t = "%3F" THEN "?" ELSE t

UnquoteAll(s) == [i \in 1..Len(s) |-> Unquote(s[i])]

\* urlparse(url).query: what follows the first "?" of the part before the
\* first "#"; empty when that part holds no "?".
Query(u) ==
    LET noFrag == IF Positions(u, "#") = {} THEN u
                  ELSE Before(u, Min(Positions(u, "#")))
    IN  IF Positions(noFrag, "?") = {} THEN <<>>
        ELSE From(noFrag, Min(Positions(noFrag, "?")) + 1)

\* parse_qs(query).get("doc", [None])[0]: the pairs are split on "&", each
\* pair on its first "=", pairs with no "=" or a blank value are dropped,
\* name and value are unquoted, and the first value named doc is taken.
DocParam(q) ==
    LET pairs == Split(q, "&")
        HasEq(p)  == Positions(p, "=") # {}
        Name(p)   == UnquoteAll(Before(p, Min(Positions(p, "="))))
        Value(p)  == UnquoteAll(From(p, Min(Positions(p, "=")) + 1))
        Kept == {i \in 1..Len(pairs) :
                    /\ HasEq(pairs[i])
                    /\ Value(pairs[i]) # <<>>
                    /\ Name(pairs[i]) = <<"doc">>}
    IN  IF Kept = {} THEN None ELSE Value(pairs[Min(Kept)])

normalize_sec_url(u) ==
    IF Positions(u, "/ix") # {}
    THEN LET doc == DocParam(Query(u))
         IN  IF doc # None THEN <<SecHost>> \o doc ELSE u
    ELSE u

\* The pieces URLs are built from: the host, the viewer segment, a doc
\* parameter (plain and percent-encoded), an Archives path, another
\* parameter, a fragment.
UrlPieces ==
    { <<SecHost>>, <<"/ix">>, <<"?", "doc", "=">>, <<"%3F", "doc", "=">>,
      <<"/a">>, <<"&", "x", "=">>, <<"#">> }

MaxUrlPieces == 6

\* The URLs made of at most n pieces.
UrlInputs(n) == {Flatten(ps) : ps \in UNION {[1..k -> UrlPieces] : k \in 0..n}}

UrlIdle ==
    /\ url = <<>> /\ url_out = None /\ url_prev = None /\ url_calls = 0

UrlInit ==
    /\ url \in UrlInputs(MaxUrlPieces)
    /\ url_out = None /\ url_prev = None /\ url_calls = 0

\* One more application: normalize_sec_url(url), then of its own result.
Normalize ==
    /\ url_calls < 2
    /\ url_out' = normalize_sec_url(IF url_calls = 0 THEN url ELSE url_out)
    /\ url_prev' = url_out
    /\ url_calls' = url_calls + 1
    /\ UNCHANGED url

\* ------------------------------------------------------------------------
\* extract_item_1c
\* ------------------------------------------------------------------------

\* Characters of each token: len() counts them.  "para" is a run of prose
\* that holds no item reference; "\n" is the separator join() inserts.
Width(t) ==
    CASE t = "item"          -> 4
      [] t = "cybersecurity" -> 13
      [] t = "see"           -> 3
      [] t = "para"          -> 188
      [] t \in {"1c", "1d", "7a", "9a", "9b", "10", "11", "12", "13", "14", "15"} -> 2
      [] OTHER               -> 1

RECURSIVE StrLen(_)
StrLen(s) == IF s = <<>> THEN 0 ELSE Width(Head(s)) + StrLen(Tail(s))

\* \s of the regexes, and what str.strip() removes.
IsSpace(t) == t \in {" ", "\n"}

\* Tokens made of word characters: \b holds between one of them and a
\* token that is not, or the end of the string.
IsWord(t) == ~IsSpace(t) /\ t # "."

\* str.strip()
RECURSIVE LStrip(_)
LStrip(s) == IF s # <<>> /\ IsSpace(Head(s)) THEN LStrip(Tail(s)) ELSE s

RECURSIVE RStrip(_)
RStrip(s) ==
    IF s # <<>> /\ IsSpace(s[Len(s)]) THEN RStrip(Before(s, Len(s))) ELSE s

Strip(s) == RStrip(LStrip(s))

\* "\n".join(lines)
RECURSIVE Join(_)
Join(ls) ==
    IF ls = <<>> THEN <<>>
    ELSE IF Len(ls) = 1 THEN ls[1]
    ELSE ls[1] \o <<"\n">> \o Join(Tail(ls))

\* \s* from position i: the first position at or after i holding no space.
RECURSIVE SkipWs(_, _)
SkipWs(s, i) == IF i <= Len(s) /\ IsSpace(s[i]) THEN SkipWs(s, i + 1) ELSE i

\* Token at position i, or "" past the end.
At(s, i) == IF i >= 1 /\ i <= Len(s) THEN s[i] ELSE ""

\* \b after position i (i holds a word token).
WordEndsAt(s, i) == i = Len(s) \/ ~IsWord(s[i + 1])

\* start_pat: ^\s*item\s*1c\s*[.:-]?\s*(cybersecurity)?\s*$
StartPat(s) ==
    LET i0 == SkipWs(s, 1)
        i1 == SkipWs(s, i0 + 1)
        i2 == SkipWs(s, i1 + 1)
        i3 == IF At(s, i2) = "." THEN i2 + 1 ELSE i2
        i4 == SkipWs(s, i3)
        i5 == IF At(s, i4) = "cybersecurity" THEN i4 + 1 ELSE i4
        i6 == SkipWs(s, i5)
    IN  /\ At(s, i0) = "item"
        /\ At(s, i1) = "1c"
        /\ i6 = Len(s) + 1

\* loose_start: \bitem\s*1c\b anywhere in the line
LooseStart(s) ==
    \E i \in 1..Len(s) :
        /\ s[i] = "item"
        /\ (i = 1 \/ ~IsWord(s[i - 1]))
        /\ LET j == SkipWs(s, i + 1)
           IN  At(s, j) = "1c" /\ WordEndsAt(s, j)

\* The section numbers of end_pat.
EndNumbers ==
    {"1d", "2", "3", "4", "5", "6", "7", "7a", "8", "9", "9a", "9b",
     "10", "11", "12", "13", "14", "15"}

\* end_pat: ^\s*item\s*(1d|2|...|15)\b
EndPat(s) ==
    LET i0 == SkipWs(s, 1)
        j  == SkipWs(s, i0 + 1)
    IN  /\ At(s, i0) = "item"
        /\ At(s, j) \in EndNumbers
        /\ WordEndsAt(s, j)

\* Python's None for an index; indices are 0-based as in the source.
NoIdx == -1

\* for i, line in enumerate(lines): if start_pat.search(line.strip()): break
RECURSIVE FirstStrict(_, _)
FirstStrict(lines, i) ==
    IF i >= Len(lines) THEN NoIdx
    ELSE IF StartPat(Strip(lines[i + 1])) THEN i
    ELSE FirstStrict(lines, i + 1)

\* for i, line in enumerate(lines): if loose_start.search(line): break
RECURSIVE FirstLoose(_, _)
FirstLoose(lines, i) ==
    IF i >= Len(lines) THEN NoIdx
    ELSE IF LooseStart(lines[i + 1]) THEN i
    ELSE FirstLoose(lines, i + 1)

\* for j in range(start_idx + 1, len(lines)): if end_pat.search(...): break
RECURSIVE FirstEnd(_, _)
FirstEnd(lines, j) ==
    IF j >= Len(lines) THEN NoIdx
    ELSE IF EndPat(Strip(lines[j + 1])) THEN j
    ELSE FirstEnd(lines, j + 1)

\* The start search as one pass that takes the first line matching either
\* pattern.
StartIdxOnePass(lines) ==
    LET hits == {i \in 1..Len(lines) :
                    StartPat(Strip(lines[i])) \/ LooseStart(lines[i])}
    IN  IF hits = {} THEN NoIdx ELSE Min(hits) - 1

\* The start index the two loops leave: the strict search over the whole
\* text first, the loose search only when it found nothing.
StartIdx(lines) ==
    IF FirstStrict(lines, 0) # NoIdx THEN FirstStrict(lines, 0)
    ELSE FirstLoose(lines, 0)

\* The end search started at the top of the text instead of after the
\* start line.
EndIdxFromTop(lines, s) == FirstEnd(lines, 0)

\* The end index the third loop leaves.
EndIdx(lines, s) == FirstEnd(lines, s + 1)

MinLen == 400

\* The slice taken up to and including the end line.
ChunkWithEndLine(lines, s, e) ==
    Strip(Join(IF e # NoIdx /\ e # 0
               THEN SubSeq(lines, s + 1, e + 1)
               ELSE SubSeq(lines, s + 1, Len(lines))))

\* lines[start_idx:end_idx] if end_idx else lines[start_idx:], joined and
\* stripped.
Chunk(lines, s, e) ==
    Strip(Join(IF e # NoIdx /\ e # 0
               THEN SubSeq(lines, s + 1, e)
               ELSE SubSeq(lines, s + 1, Len(lines))))

\* The excerpt returned whatever its length.
GuardOff(chunk) == chunk

\* return chunk if len(chunk) >= 400 else None
Guard(chunk) == IF StrLen(chunk) >= MinLen THEN chunk ELSE None

extract_item_1c(lines) ==
    LET s == StartIdx(lines)
    IN  IF s = NoIdx THEN None
        ELSE Guard(Chunk(lines, s, EndIdx(lines, s)))

\* The lines texts are made of.
LineHeader   == <<"item", " ", "1c", ".", " ", "cybersecurity">>
LineIndented == <<" ", "item", " ", "1c">>
LineMention  == <<"see", " ", "item", " ", "1c", ".">>
LineItem2    == <<"item", " ", "2", " ", "see">>
LineItem3    == <<"item", " ", "3">>
LineRefItem2 == <<"see", " ", "item", " ", "2">>
LinePara2    == <<"para", " ", "para">>
LinePara3    == <<"para", " ", "para", " ", "para">>
LineBlank    == <<>>

TextLines ==
    { LineHeader, LineIndented, LineMention, LineItem2, LineItem3,
      LineRefItem2, LinePara2, LinePara3, LineBlank }

MaxLines == 4

\* A text is the sequence of its lines (text.splitlines()).
Texts == UNION {[1..n -> TextLines] : n \in 0..MaxLines}

TextIdle ==
    /\ text = <<>> /\ start_idx = NoIdx /\ end_idx = NoIdx
    /\ item_1c = None /\ x_done = FALSE

TextInit ==
    /\ text \in Texts
    /\ start_idx = NoIdx /\ end_idx = NoIdx
    /\ item_1c = None /\ x_done = FALSE

\* item_1c = extract_item_1c(text), with the locals it computed.
Extract ==
    /\ ~x_done
    /\ start_idx' = StartIdx(text)
    /\ end_idx' = IF StartIdx(text) = NoIdx THEN NoIdx
                  ELSE EndIdx(text, StartIdx(text))
    /\ item_1c' = extract_item_1c(text)
    /\ x_done' = TRUE
    /\ UNCHANGED text

\* ------------------------------------------------------------------------
\* filing_index_url_from_master_filename
\* ------------------------------------------------------------------------

\* The IndexError parts[2] raises on a list of fewer than 3 parts.
IndexError == <<"IndexError">>

\* Path(name).stem for a name without "/": the name up to its last ".",
\* unless that "." is the first or the last character.
Stem(name) ==
    LET dots == Positions(name, ".")
        Max(S) == CHOOSE m \in S : \A n \in S : m >= n
    IN  IF dots = {} THEN name
        ELSE IF Max(dots) > 1 /\ Max(dots) < Len(name)
             THEN Before(name, Max(dots))
             ELSE name

\* str.replace("-", "")
RemoveDashes(s) == SelectSeq(s, LAMBDA t : t # "-")

\* The CIK taken as the directory of the last segment.
CikOfParent(parts) == parts[Len(parts) - 1]

\* cik = parts[2]
CikOf(parts) == parts[3]

ArchivesData == "https://www.sec.gov/Archives/edgar/data"

filing_index_url_from_master_filename(fn) ==
    LET parts == Split(fn, "/")
    IN  IF Len(parts) < 3 THEN IndexError
        ELSE LET accession_with_dashes == Stem(parts[Len(parts)])
                 accession_no_dashes   == RemoveDashes(accession_with_dashes)
             IN  <<ArchivesData, "/">> \o CikOf(parts) \o <<"/">>
                    \o accession_no_dashes \o <<"/">>
                    \o accession_with_dashes \o <<"-index.htm">>

\* The path segments filenames are made of.
SegAccession == <<"0001", "-", "26", "-", "13", ".", "txt">>
SegNoSuffix  == <<"0002", "-", "26">>
SegDotted    == <<"a", ".", "b", "-", "c", ".", "txt">>

NameSegments ==
    { <<"edgar">>, <<"data">>, <<"1035443">>, SegAccession, SegNoSuffix,
      SegDotted, <<>> }

MaxSegments == 4

\* "/".join of every sequence of 1..MaxSegments segments.
RECURSIVE JoinSlash(_)
JoinSlash(segs) ==
    IF Len(segs) = 1 THEN segs[1]
    ELSE segs[1] \o <<"/">> \o JoinSlash(Tail(segs))

Filenames ==
    {JoinSlash(segs) : segs \in UNION {[1..n -> NameSegments] : n \in 1..MaxSegments}}

NameIdle == filename = <<>> /\ index_url = None /\ f_done = FALSE

NameInit == filename \in Filenames /\ index_url = None /\ f_done = FALSE

\* index_url = filing_index_url_from_master_filename(filename)
DeriveIndexUrl ==
    /\ ~f_done
    /\ index_url' = filing_index_url_from_master_filename(filename)
    /\ f_done' = TRUE
    /\ UNCHANGED filename

\* ------------------------------------------------------------------------
\* primary_10k_html_url_from_index
\* ------------------------------------------------------------------------

\* No <a> in the cell, or an <a> whose href is missing or empty.
NoHref == <<>>

\* str.upper() of a document type.
Upper(t) == IF t = "10-k" THEN "10-K" ELSE t

\* str.lower() on the tokens of a name or href.
Lower(s) ==
    [i \in 1..Len(s) |->
        CASE s[i] = ".HTM"  -> ".htm"
          [] s[i] = ".HTML" -> ".html"
          [] OTHER          -> s[i]]

\* s.endswith((".htm", ".html"))
EndsWithHtm(s) == s # <<>> /\ s[Len(s)] \in {".htm", ".html"}

\* A <tr> of the index page: the number of its <td> cells, the text of
\* the first and of the fourth cell, the href of the first <a> of the
\* first cell, and the href of an <a> further on in the row.
Row(n, name, type, href, other) ==
    [ncols |-> n, doc_name |-> name, doc_type |-> type,
     a0 |-> href, later |-> other]

\* The exact-type test of the first loop, with its href check.
ExactMatch(r) ==
    /\ r.ncols >= 4
    /\ Upper(r.doc_type) = "10-K"
    /\ EndsWithHtm(Lower(r.doc_name))
    /\ r.a0 # NoHref

\* The first loop left out: only the fallback decides.
ExactScanOff(rows, i) == None

\* for row in soup.select("table tr"): ... return SecHost + a["href"]
RECURSIVE ExactScan(_, _)
ExactScan(rows, i) ==
    IF i > Len(rows) THEN None
    ELSE IF ExactMatch(rows[i]) THEN <<SecHost>> \o rows[i].a0
    ELSE ExactScan(rows, i + 1)

\* soup.select("table a[href]"): the hrefs of the table in document order.
RECURSIVE Hrefs(_)
Hrefs(rows) ==
    IF rows = <<>> THEN <<>>
    ELSE SelectSeq(<<Head(rows).a0, Head(rows).later>>, LAMBDA h : h # NoHref)
            \o Hrefs(Tail(rows))

\* for a in soup.select("table a[href]"): first href ending in .htm/.html
RECURSIVE FallbackScan(_, _)
FallbackScan(hs, i) ==
    IF i > Len(hs) THEN None
    ELSE IF EndsWithHtm(Lower(hs[i])) THEN <<SecHost>> \o hs[i]
    ELSE FallbackScan(hs, i + 1)

primary_10k_html_url_from_index(rows) ==
    IF ExactScan(rows, 1) # None THEN ExactScan(rows, 1)
    ELSE FallbackScan(Hrefs(rows), 1)

\* The rows index pages are made of.
RowMain     == Row(4, <<"main", ".htm">>, "10-K", <<"/Archives/main", ".htm">>, NoHref)
RowUpper    == Row(5, <<"MAIN2", ".HTM">>, "10-k", <<"/ix", "?", "doc", "=", "/a", ".HTM">>, NoHref)
RowExhibit  == Row(4, <<"ex99", ".htm">>, "EX-99", <<"/Archives/ex99", ".htm">>, NoHref)
RowNoLink   == Row(4, <<"bare", ".htm">>, "10-K", NoHref, NoHref)
RowLinkLate == Row(4, <<"late", ".htm">>, "10-K", NoHref, <<"/Archives/late", ".html">>)
RowText     == Row(4, <<"full", ".txt">>, "10-K", <<"/Archives/full", ".txt">>, NoHref)
RowNarrow   == Row(3, <<"narrow", ".htm">>, "10-K", <<"/Archives/narrow", ".htm">>, NoHref)
RowOddHref  == Row(4, <<"odd", ".htm">>, "10-K", <<"/Archives/odd", ".txt">>, NoHref)
RowHeading  == Row(0, <<>>, "", NoHref, NoHref)

PageRows ==
    { RowMain, RowUpper, RowExhibit, RowNoLink, RowLinkLate, RowText,
      RowNarrow, RowOddHref, RowHeading }

MaxRows == 3

IndexPages == UNION {[1..n -> PageRows] : n \in 0..MaxRows}

PageIdle == index_page = <<>> /\ html_url = None /\ r_done = FALSE

PageInit == index_page \in IndexPages /\ html_url = None /\ r_done = FALSE

\* html_url = primary_10k_html_url_from_index(index_url), the page fetched
ResolvePrimary ==
    /\ ~r_done
    /\ html_url' = primary_10k_html_url_from_index(index_page)
    /\ r_done' = TRUE
    /\ UNCHANGED index_page

\* ------------------------------------------------------------------------
\* html_to_text
\* ------------------------------------------------------------------------

\* An element of the document with the line of text it holds.
Block(tag, line) == [tag |-> tag, line |-> line]

\* The elements decompose() removes before get_text.
Dropped == {"script", "style", "noscript", "table"}

\* soup.get_text("\n"): the lines of the elements that are left.
VisibleLines(h) ==
    LET kept == SelectSeq(h, LAMBDA b : b.tag \notin Dropped)
    IN  [i \in 1..Len(kept) |-> kept[i].line]

\* re.sub(r"\n{3,}", "\n\n"): of a run of empty lines only one is kept.
RECURSIVE CollapseNewlines(_)
CollapseNewlines(ls) ==
    IF Len(ls) < 2 THEN ls
    ELSE IF ls[1] = <<>> /\ ls[2] = <<>> THEN CollapseNewlines(Tail(ls))
    ELSE <<ls[1]>> \o CollapseNewlines(Tail(ls))

\* re.sub(r"[ \t]+", " "): of a run of spaces only one is kept.
RECURSIVE CollapseSpaces(_)
CollapseSpaces(l) ==
    IF Len(l) < 2 THEN l
    ELSE IF l[1] = " " /\ l[2] = " " THEN CollapseSpaces(Tail(l))
    ELSE <<l[1]>> \o CollapseSpaces(Tail(l))

\* text.strip() followed by the splitlines() of extract_item_1c: the
\* stripped text cut back into its lines.
StripLines(ls) ==
    LET t == Strip(Join(ls))
    IN  IF t = <<>> THEN <<>> ELSE Split(t, "\n")

html_to_text(h) ==
    LET a == CollapseNewlines(VisibleLines(h))
        b == [i \in 1..Len(a) |-> CollapseSpaces(a[i])]
    IN  StripLines(b)

\* ------------------------------------------------------------------------
\* download, process_filing, main
\* ------------------------------------------------------------------------

Event(e, w, r) == [ev |-> e, what |-> w, rec |-> r]

\* download without its pause.
NoDelay(l, st, r) == l

\* time.sleep(0.25) in download
CourtesyDelay(l, st, r) == Append(l, Event("sleep", st, r))

\* requests.get(url, headers=headers, timeout=60) in download
Request(l, st, r) == Append(l, Event("get", st, r))

\* A row of the master index (the columns process_filing reads).
Record(fn, cik, date) == [Filename |-> fn, CIK |-> cik, DateFiled |-> date]

\* base = f"{cik}_{date_filed}_{accession}"
Base(rec) ==
    LET parts == Split(rec.Filename, "/")
    IN  <<rec.CIK, "_", rec.DateFiled, "_">> \o Stem(parts[Len(parts)])

\* save_text(s, Path("data/<area>") / f"{base}..."): the file now exists.
SaveText(fs, area, rec) == fs \cup {<<area, Base(rec)>>}

\* Where control goes when a call made while a record is processed raises:
\* neither process_filing nor main catches, so apply() and main end.
OnException(st) == "crashed"

\* if not html_url: print(...); return
AfterResolve(u) == IF u = None THEN "return" ELSE "sleep"

\* process_filing without the early return on a missing section.
AfterExtractAlwaysSave(item) == "save_item"

\* if item_1c is None: print(...); return
AfterExtract(item) == IF item = None THEN "return" ELSE "save_item"

RecordA ==
    Record(<<"edgar", "/", "data", "/", "1035443", "/">> \o SegAccession,
           "1035443", "20260206")
RecordB ==
    Record(<<"edgar", "/", "data", "/", "2000", "/">> \o SegNoSuffix,
           "2000", "20260206")
RecordC ==
    Record(<<"edgar", "/", "data", "/", "3000", "/">> \o SegDotted,
           "3000", "20260209")
RecordMalformed == Record(<<"edgar", "/">> \o SegAccession, "4000", "20260206")

MasterRecords == {RecordA, RecordB, RecordC, RecordMalformed}

MaxRecords == 3

\* The 10-K rows sample() draws: distinct rows of the master index.
Samples ==
    {smp \in UNION {[1..n -> MasterRecords] : n \in 0..MaxRecords} :
        \A i, j \in 1..Len(smp) : i # j => smp[i] # smp[j]}

\* The index pages the filing index fetch may return.
FetchedPages ==
    { <<RowExhibit, RowMain>>, <<RowHeading, RowUpper>>, <<RowText>> }

\* The documents the primary document fetch may return.
DocSection ==
    << Block("p", LineHeader), Block("table", LineItem2),
       Block("p", LinePara2), Block("p", <<"para", " ", " ", "para">>),
       Block("p", LineItem2) >>
DocMention ==
    << Block("p", LineBlank), Block("p", LineMention), Block("p", LineItem2) >>
DocPlain == << Block("script", LineHeader), Block("p", LinePara3) >>

FetchedDocs == {DocSection, DocMention, DocPlain}

MainIdle ==
    /\ pc = "idle" /\ sample = <<>> /\ cur = 0 /\ stage = "none"
    /\ html = <<>> /\ files = {} /\ log = <<>> /\ crashed = FALSE

\* main() has called load_master_idx(INDEX_URL), which is in download.
MainInit ==
    /\ pc = "sleep" /\ sample = <<>> /\ cur = 0 /\ stage = "master"
    /\ html = <<>> /\ files = {} /\ log = <<>> /\ crashed = FALSE

unitFlags == <<url_out, url_prev, url_calls, start_idx, end_idx, x_done,
               r_done, f_done>>

\* sample.apply(process_filing, axis=1): the next row, or the end of main.
Advance ==
    IF cur < Len(sample)
    THEN pc' = "begin" /\ cur' = cur + 1
    ELSE pc' = "done" /\ cur' = cur

\* download: the pause that precedes the request.
Sleep ==
    /\ pc = "sleep"
    /\ log' = CourtesyDelay(log, stage, cur)
    /\ pc' = "get"
    /\ UNCHANGED <<sample, cur, stage, html, files, crashed, url, text,
                   item_1c, index_page, html_url, filename, index_url,
                   unitFlags>>

\* download: the request times out or raise_for_status() raises.
GetFails ==
    /\ pc = "get"
    /\ log' = Append(Request(log, stage, cur), Event("raise", stage, cur))
    /\ pc' = OnException(stage)
    /\ crashed' = (OnException(stage) = "crashed")
    /\ UNCHANGED <<sample, cur, stage, html, files, url, text, item_1c,
                   index_page, html_url, filename, index_url, unitFlags>>

\* load_master_idx: the index is fetched, parsed and sampled.
GetMaster ==
    /\ pc = "get" /\ stage = "master"
    /\ log' = Request(log, stage, cur)
    /\ \E smp \in Samples :
        /\ sample' = smp
        /\ IF Len(smp) > 0
           THEN pc' = "begin" /\ cur' = 1
           ELSE pc' = "done" /\ cur' = 0
    /\ UNCHANGED <<stage, html, files, crashed, url, text, item_1c,
                   index_page, html_url, filename, index_url, unitFlags>>

\* process_filing up to the call of primary_10k_html_url_from_index.
Begin ==
    /\ pc = "begin"
    /\ filename' = sample[cur].Filename
    /\ index_url' = filing_index_url_from_master_filename(sample[cur].Filename)
    /\ IF index_url' = IndexError
       THEN /\ pc' = OnException("filename")
            /\ crashed' = (OnException("filename") = "crashed")
            /\ log' = log \o <<Event("begin", "", cur), Event("raise", "filename", cur)>>
            /\ UNCHANGED stage
       ELSE /\ pc' = "sleep"
            /\ stage' = "index"
            /\ log' = Append(log, Event("begin", "", cur))
            /\ UNCHANGED crashed
    /\ UNCHANGED <<sample, cur, html, files, url, text, item_1c, index_page,
                   html_url, unitFlags>>

\* primary_10k_html_url_from_index: the index page arrives and is scanned;
\* process_filing returns when no URL was found, else normalizes it.
GetIndex ==
    /\ pc = "get" /\ stage = "index"
    /\ \E page \in FetchedPages :
        /\ index_page' = page
        /\ html_url' = primary_10k_html_url_from_index(page)
    /\ IF AfterResolve(html_url') = "return"
       THEN /\ log' = Append(Request(log, stage, cur), Event("return", "no_url", cur))
            /\ Advance
            /\ UNCHANGED <<url, stage>>
       ELSE /\ log' = Request(log, stage, cur)
            /\ url' = normalize_sec_url(html_url')
            /\ stage' = "doc"
            /\ pc' = "sleep"
            /\ UNCHANGED cur
    /\ UNCHANGED <<sample, html, files, crashed, text, item_1c, filename,
                   index_url, unitFlags>>

\* html = download(url): the document arrives.
GetDoc ==
    /\ pc = "get" /\ stage = "doc"
    /\ log' = Request(log, stage, cur)
    /\ html' \in FetchedDocs
    /\ pc' = "save_html"
    /\ UNCHANGED <<sample, cur, stage, files, crashed, url, text, item_1c,
                   index_page, html_url, filename, index_url, unitFlags>>

\* save_text(html, Path("data/raw_html") / f"{base}.htm")
SaveHtml ==
    /\ pc = "save_html"
    /\ files' = SaveText(files, "raw_html", sample[cur])
    /\ log' = Append(log, Event("save", "raw_html", cur))
    /\ pc' = "save_text"
    /\ UNCHANGED <<sample, cur, stage, html, crashed, url, text, item_1c,
                   index_page, html_url, filename, index_url, unitFlags>>

\* text = html_to_text(html); save_text(text, Path("data/text") / ...)
SaveTxt ==
    /\ pc = "save_text"
    /\ text' = html_to_text(html)
    /\ files' = SaveText(files, "text", sample[cur])
    /\ log' = Append(log, Event("save", "text", cur))
    /\ pc' = "extract"
    /\ UNCHANGED <<sample, cur, stage, html, crashed, url, item_1c,
                   index_page, html_url, filename, index_url, unitFlags>>

\* item_1c = extract_item_1c(text); return when it is None.
ExtractItem ==
    /\ pc = "extract"
    /\ item_1c' = extract_item_1c(text)
    /\ IF AfterExtract(item_1c') = "return"
       THEN /\ log' = Append(log, Event("return", "no_item", cur))
            /\ Advance
       ELSE /\ pc' = "save_item"
            /\ UNCHANGED <<log, cur>>
    /\ UNCHANGED <<sample, stage, html, files, crashed, url, text,
                   index_page, html_url, filename, index_url, unitFlags>>

\* save_text(item_1c, Path("data/extracted") / ...); print; return
SaveItem ==
    /\ pc = "save_item"
    /\ files' = SaveText(files, "extracted", sample[cur])
    /\ log' = log \o <<Event("save", "extracted", cur), Event("return", "saved", cur)>>
    /\ Advance
    /\ UNCHANGED <<sample, stage, html, crashed, url, text, item_1c,
                   index_page, html_url, filename, index_url, unitFlags>>

\* ------------------------------------------------------------------------
\* Specifications
\* ------------------------------------------------------------------------

\* The program: main() run on what the fetches return.
Init == UrlIdle /\ TextIdle /\ PageIdle /\ NameIdle /\ MainInit

Next ==
    \/ Sleep
    \/ GetFails
    \/ GetMaster
    \/ Begin
    \/ GetIndex
    \/ GetDoc
    \/ SaveHtml
    \/ SaveTxt
    \/ ExtractItem
    \/ SaveItem

Spec == Init /\ [][Next]_vars

\* normalize_sec_url on every URL of UrlInputs.
InitUrl == UrlInit /\ TextIdle /\ PageIdle /\ NameIdle /\ MainIdle

NextUrl == Normalize /\ UNCHANGED <<textVars, pageVars, nameVars, mainVars>>

SpecUrl == InitUrl /\ [][NextUrl]_vars

\* extract_item_1c on every text of Texts.
InitText == UrlIdle /\ TextInit /\ PageIdle /\ NameIdle /\ MainIdle

NextText == Extract /\ UNCHANGED <<urlVars, pageVars, nameVars, mainVars>>

SpecText == InitText /\ [][NextText]_vars

\* primary_10k_html_url_from_index on every page of IndexPages.
InitPage == UrlIdle /\ TextIdle /\ PageInit /\ NameIdle /\ MainIdle

NextPage == ResolvePrimary /\ UNCHANGED <<urlVars, textVars, nameVars, mainVars>>

SpecPage == InitPage /\ [][NextPage]_vars

\* filing_index_url_from_master_filename on every filename of Filenames.
InitName == UrlIdle /\ TextIdle /\ PageIdle /\ NameInit /\ MainIdle

NextName == DeriveIndexUrl /\ UNCHANGED <<urlVars, textVars, pageVars, mainVars>>

SpecName == InitName /\ [][NextName]_vars

\* ------------------------------------------------------------------------
\* Properties of main and process_filing (specification Spec)
\* ------------------------------------------------------------------------

\* The positions of the log holding event e of kind w for record r.
Logged(e, w, r) == {i \in 1..Len(log) : log[i] = Event(e, w, r)}

\* The records process_filing was called for.
Begun == {r \in 1..Len(sample) : Logged("begin", "", r) # {}}

Saved(area, r) == <<area, Base(sample[r])>> \in files

\* C1: one record's failure never aborts the batch: when main has ended
\* on a non-empty sample, no exception of a record's processing has
\* propagated out of it and process_filing was run for every record.
C1_BatchContinues ==
    (pc \in {"done", "crashed"} /\ Len(sample) > 0)
        => (~crashed /\ Begun = 1..Len(sample))

\* C2: the stages of a record are persisted in a fixed order. With no
\* primary document URL the document is not fetched and nothing is
\* written; the raw HTML is written before the text; the extracted section
\* is written only after both and only when extract_item_1c returned one;
\* with no section the raw HTML and the text exist, the extracted file
\* does not, and process_filing has returned without an error.
C2_StageOrder ==
    /\ \A r \in Begun :
        /\ Logged("return", "no_url", r) # {}
              => /\ Logged("get", "doc", r) = {}
                 /\ \A a \in {"raw_html", "text", "extracted"} :
                        Logged("save", a, r) = {} /\ ~Saved(a, r)
        /\ \A j \in Logged("save", "text", r) :
              \E i \in Logged("save", "raw_html", r) : i < j
        /\ \A k \in Logged("save", "extracted", r) :
              \E i \in Logged("save", "raw_html", r) :
                  \E j \in Logged("save", "text", r) : i < j /\ j < k
        /\ Saved("extracted", r) => Saved("raw_html", r) /\ Saved("text", r)
        /\ Logged("return", "no_item", r) # {}
              => /\ Saved("raw_html", r) /\ Saved("text", r)
                 /\ ~Saved("extracted", r)
                 /\ \A w \in {"filename", "index", "doc"} :
                        Logged("raise", w, r) = {}
    /\ pc = "save_item" => item_1c # None
    /\ (Len(log) > 0 /\ log[Len(log)] = Event("return", "no_item", cur))
          => item_1c = None

\* One record ended with no section found and another with its section saved.
C2_Witness ==
    /\ pc = "done"
    /\ \E r \in Begun : Logged("return", "no_item", r) # {}
    /\ \E r \in Begun : Logged("return", "saved", r) # {} /\ Saved("extracted", r)
    /\ \E r \in Begun : Logged("return", "no_url", r) # {}

\* C10: processing is sequential and rate-limited: every request is
\* immediately preceded by the pause of its own download call, the events
\* of the records follow the order of the sample, and a request of a
\* record is issued only after the pipeline of the record before it ended.
C10_RateLimited ==
    /\ \A i \in 1..Len(log) :
          log[i].ev = "get"
              => i > 1 /\ log[i - 1] = Event("sleep", log[i].what, log[i].rec)
    /\ \A i, j \in 1..Len(log) : i < j => log[i].rec <= log[j].rec
    /\ \A j \in 1..Len(log) :
          (log[j].ev = "get" /\ log[j].rec > 1)
              => \E i \in 1..(j - 1) :
                    log[i].ev = "return" /\ log[i].rec = log[j].rec - 1

\* main ended after two records that each fetched their primary document.
C10_Witness ==
    /\ pc = "done"
    /\ Logged("get", "master", 0) # {}
    /\ Logged("get", "doc", 1) # {}
    /\ Logged("get", "doc", 2) # {}

\* ------------------------------------------------------------------------
\* Properties of normalize_sec_url (specification SpecUrl)
\* ------------------------------------------------------------------------

\* C3: normalize_sec_url is idempotent: applied to its own result it
\* returns that result unchanged.
C3_Idempotent == url_calls = 2 => url_out = url_prev

\* ------------------------------------------------------------------------
\* Properties of extract_item_1c (specification SpecText)
\* ------------------------------------------------------------------------

\* 1-based positions of the lines matching the strict, the loose and the
\* next-item-header pattern.
StrictLines == {i \in 1..Len(text) : StartPat(Strip(text[i]))}
LooseLines  == {i \in 1..Len(text) : LooseStart(text[i])}
EndLines    == {i \in 1..Len(text) : EndPat(Strip(text[i]))}

\* The pairs (h, e) of the case of C4: the first strict header line is
\* "Item 1C. Cybersecurity" at h, "Item 2 Properties" is at e, and the
\* lines between them hold at least 400 characters and no next-item header.
C4_Case ==
    {he \in (1..Len(text)) \X (1..Len(text)) :
        /\ he[1] < he[2]
        /\ text[he[1]] = LineHeader
        /\ text[he[2]] = LineItem2
        /\ \A k \in StrictLines : he[1] <= k
        /\ \A k \in EndLines : ~(he[1] < k /\ k < he[2])
        /\ StrLen(Join(SubSeq(text, he[1] + 1, he[2] - 1))) >= MinLen}

\* C4 as stated: in that case the result is exactly the body between the
\* header line and the "Item 2" line.
C4_BodyOnly ==
    x_done => \A he \in C4_Case :
                 item_1c = Strip(Join(SubSeq(text, he[1] + 1, he[2] - 1)))

\* C4 as amended: in that case the result is the header line followed by
\* the body, up to and not including the "Item 2" line, joined and trimmed.
C4_HeaderAndBody ==
    x_done => \A he \in C4_Case :
                 item_1c = Strip(Join(SubSeq(text, he[1], he[2] - 1)))

\* The extractor ran on such a text, with lines after the "Item 2" line.
C4_Witness ==
    /\ x_done /\ item_1c # None
    /\ \E he \in C4_Case : he[2] < Len(text)

\* C5: if a line matches the strict pattern the excerpt starts at the
\* first such line, also when a line before it matches the loose pattern;
\* only with no strict match does it start at the first loose match.
C5_StrictFirst ==
    x_done =>
        /\ StrictLines # {} => start_idx = Min(StrictLines) - 1
        /\ (StrictLines = {} /\ LooseLines # {})
              => start_idx = Min(LooseLines) - 1
        /\ item_1c # None
              => Strip(Split(item_1c, "\n")[1]) = Strip(text[start_idx + 1])

\* An excerpt was returned that starts at a strict header although an
\* earlier line mentions item 1c inside a sentence.
C5_Witness ==
    /\ x_done /\ item_1c # None
    /\ StrictLines # {}
    /\ \E i \in LooseLines \ StrictLines : i < Min(StrictLines)

\* The excerpt the boundaries delimit: from the start line up to, and not
\* including, the first later next-item header, else to the last line.
Bounded ==
    LET s    == start_idx + 1
        ends == {k \in EndLines : k > s}
        last == IF ends = {} THEN Len(text) ELSE Min(ends) - 1
    IN  Strip(Join(SubSeq(text, s, last)))

\* C6: the result is absent or a trimmed excerpt of at least 400
\* characters; it is absent when the bounded excerpt is shorter and when
\* no line matches the strict or the loose pattern.
C6_MinLength ==
    x_done =>
        /\ \/ item_1c = None
           \/ /\ StrLen(item_1c) >= MinLen
              /\ Strip(item_1c) = item_1c
        /\ (StrictLines = {} /\ LooseLines = {}) => item_1c = None
        /\ (start_idx # NoIdx /\ StrLen(Bounded) < MinLen) => item_1c = None

\* The only mention of item 1c is inside a sentence just before a
\* next-item header, and the result is absent.
C6_Witness ==
    /\ x_done /\ item_1c = None
    /\ StrictLines = {} /\ LooseLines # {}
    /\ start_idx # NoIdx /\ end_idx # NoIdx
    /\ StrLen(Bounded) > 0 /\ StrLen(Bounded) < MinLen

\* C9: with a start line found, the excerpt is the lines from the start
\* line up to, and not including, the first later line matching the
\* next-item-header pattern, or up to the last line when there is none;
\* no line of the excerpt after its first matches that pattern.
C9_EndBoundary ==
    (x_done /\ start_idx # NoIdx) =>
        LET ends == {k \in EndLines : k > start_idx + 1}
        IN  /\ end_idx = (IF ends = {} THEN NoIdx ELSE Min(ends) - 1)
            /\ item_1c # None =>
                  /\ item_1c = Bounded
                  /\ \A k \in 2..Len(Split(item_1c, "\n")) :
                        ~EndPat(Strip(Split(item_1c, "\n")[k]))

\* The start line is the first line of the text, a next-item header
\* follows with further lines after it, and an excerpt was returned.
C9_Witness ==
    /\ x_done /\ item_1c # None
    /\ start_idx = 0
    /\ end_idx # NoIdx /\ end_idx + 1 < Len(text)

\* ------------------------------------------------------------------------
\* Properties of primary_10k_html_url_from_index (specification SpecPage)
\* ------------------------------------------------------------------------

\* The rows with at least 4 columns, type "10-K" in any case and a
\* document name ending in .htm/.html.
TypedRows ==
    {i \in 1..Len(index_page) :
        /\ index_page[i].ncols >= 4
        /\ Upper(index_page[i].doc_type) = "10-K"
        /\ EndsWithHtm(Lower(index_page[i].doc_name))}

\* Those of them whose first cell holds a link with a non-empty href.
LinkedTypedRows == {i \in TypedRows : index_page[i].a0 # NoHref}

\* The links of the table ending in .htm/.html, as <<row, place in row>>.
HtmLinks ==
    {ic \in (1..Len(index_page)) \X {1, 2} :
        LET h == IF ic[2] = 1 THEN index_page[ic[1]].a0
                 ELSE index_page[ic[1]].later
        IN  h # NoHref /\ EndsWithHtm(Lower(h))}

\* The first .htm/.html link anywhere in the table, or None.
FirstHtmLink ==
    IF HtmLinks = {} THEN None
    ELSE LET f == CHOOSE ic \in HtmLinks :
                     \A o \in HtmLinks :
                        ic[1] < o[1] \/ (ic[1] = o[1] /\ ic[2] <= o[2])
         IN  <<SecHost>> \o (IF f[2] = 1 THEN index_page[f[1]].a0
                             ELSE index_page[f[1]].later)

\* C7 as stated: with a typed row the result is the link of the first
\* typed row (absent if that row holds none); only with no typed row is it
\* the first .htm/.html link of the table, and absent when there is no
\* such link.
C7_FirstTypedRow ==
    r_done =>
        IF TypedRows # {}
        THEN html_url = (IF index_page[Min(TypedRows)].a0 = NoHref THEN None
                         ELSE <<SecHost>> \o index_page[Min(TypedRows)].a0)
        ELSE html_url = FirstHtmLink

\* C7 as amended: the typed row must also hold a link in its first cell.
C7_FirstLinkedTypedRow ==
    r_done =>
        IF LinkedTypedRows # {}
        THEN html_url = <<SecHost>> \o index_page[Min(LinkedTypedRows)].a0
        ELSE html_url = FirstHtmLink

\* A typed row with a link was chosen although an earlier row of another
\* type links to an .htm file.
C7_Witness ==
    /\ r_done /\ LinkedTypedRows # {}
    /\ \E j \in 1..Len(index_page) :
          /\ j < Min(LinkedTypedRows)
          /\ Upper(index_page[j].doc_type) # "10-K"
          /\ <<j, 1>> \in HtmLinks
    /\ html_url = <<SecHost>> \o index_page[Min(LinkedTypedRows)].a0

\* ------------------------------------------------------------------------
\* Properties of filing_index_url_from_master_filename (specification
\* SpecName)
\* ------------------------------------------------------------------------

\* The positions of the "/" of the filename, and its number of segments.
Slashes == Positions(filename, "/")
NumSegments == Cardinality(Slashes) + 1

\* The k-th "/" of the filename.
NthSlash(k) == CHOOSE p \in Slashes : Cardinality({q \in Slashes : q <= p}) = k

\* The third segment: what lies between the second "/" and the third "/"
\* or the end.
ThirdSegment ==
    SubSeq(filename, NthSlash(2) + 1,
           IF NumSegments > 3 THEN NthSlash(3) - 1 ELSE Len(filename))

\* The last segment: what follows the last "/".
LastSegment == From(filename, NthSlash(NumSegments - 1) + 1)

\* C8: a filename of fewer than 3 segments fails and yields no URL; one of
\* at least 3 segments yields a URL whose CIK is the third segment and
\* whose accession directory is the stem of the last segment without its
\* dashes.
C8_IndexUrl ==
    f_done =>
        IF NumSegments < 3 THEN index_url = IndexError
        ELSE LET p == Split(index_url, "/")
             IN  /\ index_url # IndexError
                 /\ Len(p) = 4
                 /\ p[1] = <<ArchivesData>>
                 /\ p[2] = ThirdSegment
                 /\ p[3] = SelectSeq(Stem(LastSegment), LAMBDA t : t # "-")
                 /\ Positions(p[3], "-") = {}
                 /\ p[4] = Stem(LastSegment) \o <<"-index.htm">>

\* A URL was derived from a filename of more than 3 segments with a
\* dashed accession number.
C8_Witness ==
    /\ f_done /\ index_url # IndexError
    /\ NumSegments > 3
    /\ ThirdSegment # <<>>
    /\ Positions(Stem(LastSegment), "-") # {}
    /\ Stem(LastSegment) # LastSegment

====
